---- MODULE Spec2Model ----
(***************************************************************************)
(* Model of coda's LLM completion layer: the Completer (retry loop with    *)
(* backoff, fallback across models, detached telemetry emission), the two  *)
(* provider clients' error mapping, and the Langfuse telemetry sink.       *)
(*                                                                         *)
(* One behaviour is one invocation of Complete or CompleteWithFallback on  *)
(* a request goroutine, the caller's context being cancelled or expiring   *)
(* at any moment, together with the telemetry goroutine the invocation     *)
(* starts and the errgroup goroutine that runs Ingest.                     *)
(***************************************************************************)
EXTENDS Integers, Sequences, FiniteSets, TLC

(* ------------------------------ bounds -------------------------------- *)

\* RetryConfig.MaxAttempts ranges over 0..MaxAttemptsBound.
MaxAttemptsBound == 3

\* CompleteWithFallback is called with 0..MaxFallbacks fallback models.
MaxFallbacks == 1

(* ------------------------ models and providers ------------------------ *)

OpenAI == "openai"

Ollama == "ollama"

ModelGPT4o == "gpt-4o"

ModelTinySwallow == "yottahmd/tiny-swallow-1.5b-instruct"

\* A model whose provider is neither OpenAI nor Ollama.
ModelOther == "other-model"

Models == {ModelGPT4o, ModelTinySwallow, ModelOther}

\* Model.Provider of the three models.
Provider(m) ==
    CASE m = ModelGPT4o -> OpenAI
      [] m = ModelTinySwallow -> Ollama
      [] OTHER -> "other"

\* supportedModels after the provider packages' init functions have run.
supportedModels == {ModelGPT4o, ModelTinySwallow}

(* ------------------------------- errors ------------------------------- *)
(* An error value is the chain errors.Is / errors.As walk: a sequence of   *)
(* layers, outermost first; the nil error is the empty chain.              *)

ErrNoMessagesKind == "no messages returned"

ErrContextLengthExceeded == "context length exceeded"

ErrTokenLimitReached == "token limit reached"

ErrInvalidAPIKey == "invalid API key"

ErrServiceUnavailable == "service unavailable"

ErrTooManyRequests == "too many requests"

ErrRateLimited == "rate limited"

Canceled == "context canceled"

DeadlineExceeded == "context deadline exceeded"

NilErr == << >>

Layer(kind) ==
    [kind |-> kind, llm |-> FALSE, Provider |-> "", StatusCode |-> 0,
     ErrorCode |-> "", Retryable |-> FALSE]

\* errors.New / a sentinel error value.
Sentinel(kind) == << Layer(kind) >>

ErrNoMessages == Sentinel(ErrNoMessagesKind)

\* fmt.Errorf("<marker>: %w", e)
Wrap(marker, e) == << Layer(marker) >> \o e

\* errors.Is(e, kind): some layer of the chain is the sentinel.
ErrorsIs(e, kind) == \E i \in 1..Len(e) : e[i].kind = kind

\* NewLLMError(err, provider, model) with the With... setters applied.
LLMError(inner, provider, status, code, retryable) ==
    << [kind |-> "LLMError", llm |-> TRUE, Provider |-> provider,
        StatusCode |-> status, ErrorCode |-> code, Retryable |-> retryable] >>
    \o inner

ErrCodeContextLengthExceeded == "context_length_exceeded"

ErrCodeLength == "length"

ErrCodeInvalidAPIKey == "invalid_api_key"

ErrCodeRateLimitExceeded == "rate_limit_exceeded"

ErrCodeInsufficientQuota == "insufficient_quota"

(* --------------------------- backend results -------------------------- *)
(* What one backend HTTP exchange can give a provider client.              *)

BackendStatus(status, code) ==
    [type |-> "status", StatusCode |-> status, Code |-> code, cause |-> "", n |-> 0]

BackendNetErr(cause) ==
    [type |-> "neterr", StatusCode |-> 0, Code |-> "", cause |-> cause, n |-> 0]

BackendOK(n) ==
    [type |-> "ok", StatusCode |-> 200, Code |-> "", cause |-> "", n |-> n]

\* Error responses of the backends: status with the error code OpenAI sends
\* with it (Ollama sends none that its client reads).
BackendStatusErrors ==
    { BackendStatus(503, ""), BackendStatus(429, ""),
      BackendStatus(429, ErrCodeRateLimitExceeded),
      BackendStatus(429, ErrCodeInsufficientQuota),
      BackendStatus(401, ErrCodeInvalidAPIKey) }

\* Transport failures that do not depend on the caller's context: the
\* client's own 120 s timeout, a broken connection.
BackendNetErrors == { BackendNetErr(DeadlineExceeded), BackendNetErr("EOF") }

\* Successful exchanges with zero or one choice / chat response.
BackendOKs == { BackendOK(0), BackendOK(1) }

\* The results an exchange can have under context state ce: a cancelled or
\* expired context can also surface as the transport's context error.
BackendResults(ce) ==
    BackendStatusErrors \cup BackendNetErrors \cup BackendOKs
    \cup (IF ce = "nil" THEN {} ELSE { BackendNetErr(ce) })

IsHTTP5xxOr429(b) ==
    /\ b.type = "status"
    /\ \/ (b.StatusCode >= 500 /\ b.StatusCode < 600)
       \/ b.StatusCode = 429

(* --------------------------- provider clients ------------------------- *)

NilRes == [nil |-> TRUE, model |-> "", attempt |-> 0, Messages |-> 0]

\* A CompleteResponse: the model and attempt it answers identify it.
Response(m, k, n) == [nil |-> FALSE, model |-> m, attempt |-> k, Messages |-> n]

\* openai Client.handleError for an *openai.Error.
OpenAIHandleStatus(b) ==
    CASE b.Code = ErrCodeContextLengthExceeded ->
            LLMError(Sentinel(ErrContextLengthExceeded), OpenAI, b.StatusCode, b.Code, FALSE)
      [] b.Code = ErrCodeLength ->
            LLMError(Sentinel(ErrTokenLimitReached), OpenAI, b.StatusCode, b.Code, FALSE)
      [] b.Code = ErrCodeInvalidAPIKey ->
            LLMError(Sentinel(ErrInvalidAPIKey), OpenAI, b.StatusCode, b.Code, FALSE)
      [] b.Code = ErrCodeRateLimitExceeded ->
            LLMError(Sentinel(ErrRateLimited), OpenAI, b.StatusCode, b.Code, TRUE)
      [] b.Code = ErrCodeInsufficientQuota ->
            LLMError(Sentinel("insufficient quota"), OpenAI, b.StatusCode, b.Code, FALSE)
      [] OTHER ->
            IF b.StatusCode >= 500 /\ b.StatusCode < 600
            THEN LLMError(Sentinel(ErrServiceUnavailable), OpenAI, b.StatusCode, b.Code, TRUE)
            ELSE IF b.StatusCode = 429
            THEN LLMError(Sentinel(ErrTooManyRequests), OpenAI, b.StatusCode, b.Code, TRUE)
            ELSE LLMError(Sentinel("openai.Error"), OpenAI, b.StatusCode, b.Code, FALSE)

\* openai Client.handleError.
OpenAIHandleError(b) ==
    IF b.type = "status"
    THEN OpenAIHandleStatus(b)
    ELSE LLMError(Sentinel(b.cause), OpenAI, 0, "", FALSE)

\* ollama Client.handleError without the case for status 429.
OllamaHandleError_Only5xx(b) ==
    IF b.type = "status"
    THEN IF b.StatusCode >= 500 /\ b.StatusCode < 600
         THEN LLMError(Sentinel(ErrServiceUnavailable), Ollama, b.StatusCode, b.Code, TRUE)
         ELSE LLMError(Sentinel("api.StatusError"), Ollama, b.StatusCode, b.Code, FALSE)
    ELSE LLMError(Sentinel(b.cause), Ollama, 0, "", FALSE)

\* ollama Client.handleError.
OllamaHandleError(b) ==
    IF b.type = "status"
    THEN IF b.StatusCode >= 500 /\ b.StatusCode < 600
         THEN LLMError(Sentinel(ErrServiceUnavailable), Ollama, b.StatusCode, b.Code, TRUE)
         ELSE IF b.StatusCode = 429
         THEN LLMError(Sentinel(ErrTooManyRequests), Ollama, b.StatusCode, b.Code, TRUE)
         ELSE LLMError(Sentinel("api.StatusError"), Ollama, b.StatusCode, b.Code, FALSE)
    ELSE LLMError(Sentinel(b.cause), Ollama, 0, "", FALSE)

\* openai Client.Complete for backend result b on attempt k of model m:
\* the pair (response, error) it returns.
OpenAIComplete(m, k, b) ==
    IF b.type # "ok"
    THEN [res |-> NilRes, err |-> OpenAIHandleError(b)]
    ELSE IF b.n = 0
    THEN [res |-> NilRes, err |-> ErrNoMessages]
    ELSE [res |-> Response(m, k, b.n), err |-> NilErr]

\* ollama Client.Complete: msgs holds what respFunc appended, possibly nothing.
OllamaComplete(m, k, b) ==
    IF b.type # "ok"
    THEN [res |-> NilRes, err |-> OllamaHandleError(b)]
    ELSE [res |-> Response(m, k, b.n), err |-> NilErr]

\* llm.Complete through the LLM interface of the client New constructed.
LLMComplete(m, k, b) ==
    IF Provider(m) = OpenAI THEN OpenAIComplete(m, k, b) ELSE OllamaComplete(m, k, b)

(* ------------------------------ completer ----------------------------- *)

\* isRetryableError taking every error for retryable.
isRetryableError_Any(e) == e # NilErr

\* isRetryableError
isRetryableError(e) ==
    \/ ErrorsIs(e, ErrServiceUnavailable)
    \/ ErrorsIs(e, ErrTooManyRequests)
    \/ ErrorsIs(e, DeadlineExceeded)

ErrTimeout == "request timed out"

ErrModelOverloaded == "model is currently overloaded"

\* llm.IsRetryable: the Retryable flag of the first LLMError of the chain,
\* else whether the chain holds one of the default retryable errors.
IsRetryable(e) ==
    IF \E i \in 1..Len(e) : e[i].llm
    THEN e[CHOOSE i \in 1..Len(e) : e[i].llm /\ \A j \in 1..(i - 1) : ~e[j].llm].Retryable
    ELSE \/ ErrorsIs(e, ErrServiceUnavailable)
         \/ ErrorsIs(e, ErrTooManyRequests)
         \/ ErrorsIs(e, ErrTimeout)
         \/ ErrorsIs(e, ErrRateLimited)
         \/ ErrorsIs(e, ErrModelOverloaded)

\* The error codes handleError of the openai client maps before it looks at
\* the status code.
OpenAIMappedCodes ==
    { ErrCodeContextLengthExceeded, ErrCodeLength, ErrCodeInvalidAPIKey,
      ErrCodeRateLimitExceeded, ErrCodeInsufficientQuota }

\* getAPIKeyFunc with a key function for every provider.
getAPIKeyFunc_AnyProvider(provider) == NilErr

\* getAPIKeyFunc: the nil error, or the unsupported-provider error.
getAPIKeyFunc(provider) ==
    IF provider \in {OpenAI, Ollama}
    THEN NilErr
    ELSE Sentinel("provider is not supported")

\* New(Config): the error of the client's construction.
New(m) ==
    IF m \in supportedModels THEN NilErr ELSE Sentinel("model is not supported")

\* Durations are in microseconds.
DefaultInitialWait == 500000

DefaultMaxWait == 5000000

\* Factor 1.5 as the fraction FactorNum / FactorDen.
FactorNum == 3

FactorDen == 2

DefaultMaxAttempts == 3

\* A second configuration, whose waits reach MaxWait within three retries.
SlowInitialWait == 4 * DefaultInitialWait

\* A third configuration, whose InitialWait is above its MaxWait:
\* WithCompleterRetryConfig takes any RetryConfig as it is.
LongInitialWait == 2 * DefaultMaxWait

\* The waits and factor WithCompleterRetryConfig is given.
WaitConfigs ==
    { [InitialWait |-> DefaultInitialWait, MaxWait |-> DefaultMaxWait],
      [InitialWait |-> SlowInitialWait, MaxWait |-> DefaultMaxWait],
      [InitialWait |-> LongInitialWait, MaxWait |-> DefaultMaxWait] }

\* wait = time.Duration(float64(wait) * Factor), capped at MaxWait.
NextWait(w, maxWait) ==
    LET grown == (w * FactorNum) \div FactorDen
    IN IF grown > maxWait THEN maxWait ELSE grown

\* context.Err() as an error value.
CtxError(ce) == Sentinel(ce)


(* -------------------------------- state ------------------------------- *)

VARIABLES
    op,           \* "Complete" or "CompleteWithFallback": the method invoked
    models,       \* the models given: primary first, then the fallbacks
    retryConfig,  \* completer.retryConfig
    cfgLangfuse,  \* cfg.LLM.Langfuse: the keys NewCompleter was given
    langfuse,     \* completer.langfuse # nil
    ctxErr,       \* ctx.Err() of the caller's context: "nil" or its error
    pc,           \* position of the request goroutine
    idx,          \* index in models of the model Complete runs for
    attempt,      \* Complete's loop variable
    wait,         \* Complete's wait
    timerFired,   \* the channel of time.After(wait) is ready
    res,          \* Complete's res
    err,          \* Complete's err
    lastErr,      \* Complete's lastErr
    ncalls,       \* llm.Complete calls made by the running Complete
    waits,        \* the backoff waits the running Complete has sat through
    all5xx429,    \* every attempt of the running Complete got HTTP 5xx or 429
    lastBackend,  \* the backend result of the latest attempt
    cres,         \* the response the latest Complete returned
    cerr,         \* the error the latest Complete returned
    tried,        \* the models Complete was called for, in call order
    result,       \* what the invocation returned to its caller
    tpc,          \* position of the telemetry goroutine
    gpc,          \* position of the errgroup goroutine running Ingest
    gerr,         \* the error g.Wait() returns
    posts,        \* POSTs made to the ingestion endpoint
    logs,         \* log entries written
    emitCtx,      \* ctx.Err() of the caller's context when sendTraceEvents ran
    bgCtx         \* bgCtx.Err() of the telemetry goroutine, "none" while it has no context

\* The state of the model registry and of the calls made on it.
VARIABLES
    cfgOllama,        \* cfg.LLM.Ollama
    supportedMap,     \* the map supportedModels: model -> its constructor
    modelRegistryMu,  \* the RWMutex: the writer holding it, the readers
    calls             \* the calls of RegisterLLM, NewRegistry and New

registryVars == << cfgOllama, supportedMap, modelRegistryMu, calls >>

\* The state of a provider client translating messages to its request.
VARIABLES
    messages,         \* the messages given to Client.Complete
    client,           \* the provider of the client that ran, or "none"
    request,          \* the messages of the request sent to the backend
    requestErr        \* the error returned before any request

clientVars == << messages, client, request, requestErr >>

\* The state of the configuration loader.
VARIABLES
    environ,          \* the process environment
    cfg,              \* the Config being loaded
    loaded,           \* the function that ran, or "none"
    loadErr           \* the error it returned

envVars == << environ, cfg, loaded, loadErr >>

\* What an invocation of the Completer leaves alone.
otherVars == << registryVars, clientVars, envVars >>

vars ==
    << op, models, retryConfig, cfgLangfuse, langfuse, ctxErr, pc, idx, attempt,
       wait, timerFired, res, err, lastErr, ncalls, waits, all5xx429,
       lastBackend, cres, cerr, tried, result, tpc, gpc, gerr, posts, logs,
       emitCtx, bgCtx, otherVars >>

configVars == << op, models, retryConfig, cfgLangfuse, langfuse >>

loopVars == << attempt, wait, timerFired, res, err, lastErr >>

histVars == << ncalls, waits, all5xx429, lastBackend >>

telemetryVars == << tpc, gpc, gerr, posts, logs, emitCtx, bgCtx >>

NoBackend == [type |-> "none", StatusCode |-> 0, Code |-> "", cause |-> "", n |-> 0]

NoResult == [returned |-> FALSE, res |-> NilRes, err |-> NilErr]

\* Sequences over S of length lo..hi.
SeqsOf(S, lo, hi) == UNION { [1..n -> S] : n \in lo..hi }

\* The model registry once the init functions of the provider packages have
\* registered their models, with no call in progress.
RegistryIdle ==
    /\ cfgOllama = [BaseURL |-> ""]
    /\ supportedMap = [m \in supportedModels |-> Provider(m)]
    /\ modelRegistryMu = [writer |-> "", readers |-> {}]
    /\ calls = << >>

\* No provider client has been given messages.
ClientIdle ==
    /\ messages = << >>
    /\ client = "none"
    /\ request = << >>
    /\ requestErr = NilErr

\* The configuration loader has not run.
EnvIdle ==
    /\ environ = << >>
    /\ cfg = << >>
    /\ loaded = "none"
    /\ loadErr = NilErr

\* The values a Langfuse key takes: empty, or some key.
LangfuseKeys == {"", "key"}

\* Langfuse.IsConfigured satisfied by either key.
LangfuseIsConfigured_EitherKey(l) == l.PrivateKey # "" \/ l.PublicKey # ""

\* Langfuse.IsConfigured: both keys are set.
LangfuseIsConfigured(l) == l.PrivateKey # "" /\ l.PublicKey # ""

\* NewCompleter: the Langfuse client is created only for a complete
\* configuration; what is returned here is completer.langfuse # nil.
NewCompleter(l) == LangfuseIsConfigured(l)

Init ==
    /\ op \in {"Complete", "CompleteWithFallback"}
    /\ models \in SeqsOf(Models, 1, IF op = "Complete" THEN 1 ELSE MaxFallbacks + 1)
    /\ \E n \in 0..MaxAttemptsBound, w \in WaitConfigs :
          retryConfig = [MaxAttempts |-> n, InitialWait |-> w.InitialWait,
                         MaxWait |-> w.MaxWait]
    /\ cfgLangfuse \in [PublicKey : LangfuseKeys, PrivateKey : LangfuseKeys]
    /\ langfuse = NewCompleter(cfgLangfuse)
    /\ ctxErr = "nil"
    /\ pc = "start"
    /\ idx = 0
    /\ attempt = 0
    /\ wait = 0
    /\ timerFired = FALSE
    /\ res = NilRes
    /\ err = NilErr
    /\ lastErr = NilErr
    /\ ncalls = 0
    /\ waits = << >>
    /\ all5xx429 = TRUE
    /\ lastBackend = NoBackend
    /\ cres = NilRes
    /\ cerr = NilErr
    /\ tried = << >>
    /\ result = NoResult
    /\ tpc = "none"
    /\ gpc = "none"
    /\ gerr = NilErr
    /\ posts = 0
    /\ logs = {}
    /\ emitCtx = "none"
    /\ bgCtx = "none"
    /\ RegistryIdle
    /\ ClientIdle
    /\ EnvIdle

\* The variables of the Completer and of its invocation.
completerVars ==
    << configVars, ctxErr, pc, idx, loopVars, histVars, cres, cerr, tried, result,
       telemetryVars >>

\* A Completer that is never invoked.
CompleterIdle ==
    /\ op = "Complete"
    /\ models = << ModelGPT4o >>
    /\ retryConfig = [MaxAttempts |-> DefaultMaxAttempts,
                      InitialWait |-> DefaultInitialWait,
                      MaxWait |-> DefaultMaxWait]
    /\ cfgLangfuse = [PublicKey |-> "", PrivateKey |-> ""]
    /\ langfuse = NewCompleter(cfgLangfuse)
    /\ ctxErr = "nil"
    /\ pc = "idle"
    /\ idx = 0
    /\ attempt = 0
    /\ wait = 0
    /\ timerFired = FALSE
    /\ res = NilRes
    /\ err = NilErr
    /\ lastErr = NilErr
    /\ ncalls = 0
    /\ waits = << >>
    /\ all5xx429 = TRUE
    /\ lastBackend = NoBackend
    /\ cres = NilRes
    /\ cerr = NilErr
    /\ tried = << >>
    /\ result = NoResult
    /\ tpc = "none"
    /\ gpc = "none"
    /\ gerr = NilErr
    /\ posts = 0
    /\ logs = {}
    /\ emitCtx = "none"
    /\ bgCtx = "none"

(* ------------------------- the caller's context ----------------------- *)

\* The caller cancels the context.
Cancel ==
    /\ ctxErr = "nil"
    /\ pc # "dead"
    /\ ctxErr' = Canceled
    /\ UNCHANGED << otherVars, configVars, pc, idx, loopVars, histVars, cres, cerr, tried,
                    result, telemetryVars >>

\* The context's deadline passes.
Expire ==
    /\ ctxErr = "nil"
    /\ pc # "dead"
    /\ ctxErr' = DeadlineExceeded
    /\ UNCHANGED << otherVars, configVars, pc, idx, loopVars, histVars, cres, cerr, tried,
                    result, telemetryVars >>

(* ------------------------------ Complete ------------------------------ *)

\* return r, e from Complete.
ReturnFromComplete(r, e) ==
    /\ pc' = "returned"
    /\ cres' = r
    /\ cerr' = e

\* A call of Complete for models[i] begins.
CallComplete(i) ==
    /\ idx' = i
    /\ tried' = Append(tried, models[i])
    /\ pc' = "enter"
    /\ ncalls' = 0
    /\ waits' = << >>
    /\ all5xx429' = TRUE
    /\ lastBackend' = NoBackend

\* The invocation begins: Complete, or CompleteWithFallback's call of
\* Complete for the primary model.
Start ==
    /\ pc = "start"
    /\ CallComplete(1)
    /\ UNCHANGED << otherVars, configVars, ctxErr, loopVars, cres, cerr, result, telemetryVars >>

\* Enter leaving a fallback model what is left of the budget of the model
\* before it.
Enter_SharedBudget ==
    /\ pc = "enter"
    /\ LET m == models[idx]
           keyErr == getAPIKeyFunc(Provider(m))
           newErr == New(m)
       IN IF keyErr # NilErr
          THEN /\ ReturnFromComplete(NilRes, Wrap("failed to get API key", keyErr))
               /\ UNCHANGED loopVars
          ELSE IF newErr # NilErr
          THEN /\ ReturnFromComplete(NilRes, Wrap("failed to initialize LLM client", newErr))
               /\ UNCHANGED loopVars
          ELSE /\ pc' = "loop"
               /\ attempt' = (IF idx = 1 THEN 0 ELSE attempt)
               /\ wait' = (IF idx = 1 THEN retryConfig.InitialWait ELSE wait)
               /\ lastErr' = NilErr
               /\ err' = NilErr
               /\ res' = NilRes
               /\ timerFired' = FALSE
               /\ UNCHANGED << cres, cerr >>
    /\ UNCHANGED << otherVars, configVars, ctxErr, idx, histVars, tried, result, telemetryVars >>

\* Complete up to the loop: the API key function, the client, the loop's
\* variables.
Enter ==
    /\ pc = "enter"
    /\ LET m == models[idx]
           keyErr == getAPIKeyFunc(Provider(m))
           newErr == New(m)
       IN IF keyErr # NilErr
          THEN /\ ReturnFromComplete(NilRes, Wrap("failed to get API key", keyErr))
               /\ UNCHANGED loopVars
          ELSE IF newErr # NilErr
          THEN /\ ReturnFromComplete(NilRes, Wrap("failed to initialize LLM client", newErr))
               /\ UNCHANGED loopVars
          ELSE /\ pc' = "loop"
               /\ attempt' = 0
               /\ wait' = retryConfig.InitialWait
               /\ lastErr' = NilErr
               /\ err' = NilErr
               /\ res' = NilRes
               /\ timerFired' = FALSE
               /\ UNCHANGED << cres, cerr >>
    /\ UNCHANGED << otherVars, configVars, ctxErr, idx, histVars, tried, result, telemetryVars >>

\* LoopHead going from a failed attempt straight to the next one.
LoopHead_NoWait ==
    /\ pc = "loop"
    /\ IF attempt < retryConfig.MaxAttempts
       THEN IF ctxErr # "nil"
            THEN /\ pc' = "returned"
                 /\ cres' = NilRes
                 /\ cerr' = CtxError(ctxErr)
                 /\ UNCHANGED timerFired
            ELSE /\ pc' = "call"
                 /\ timerFired' = FALSE
                 /\ UNCHANGED << cres, cerr >>
       ELSE /\ pc' = "afterLoop"
            /\ UNCHANGED << timerFired, cres, cerr >>
    /\ UNCHANGED << otherVars, configVars, ctxErr, idx, attempt, wait, res, err, lastErr,
                    histVars, tried, result, telemetryVars >>

\* LoopHead waiting before the first attempt too.
LoopHead_WaitFirst ==
    /\ pc = "loop"
    /\ IF attempt < retryConfig.MaxAttempts
       THEN IF ctxErr # "nil"
            THEN /\ pc' = "returned"
                 /\ cres' = NilRes
                 /\ cerr' = CtxError(ctxErr)
                 /\ UNCHANGED timerFired
            ELSE /\ pc' = "select"
                 /\ timerFired' = FALSE
                 /\ UNCHANGED << cres, cerr >>
       ELSE /\ pc' = "afterLoop"
            /\ UNCHANGED << timerFired, cres, cerr >>
    /\ UNCHANGED << otherVars, configVars, ctxErr, idx, attempt, wait, res, err, lastErr,
                    histVars, tried, result, telemetryVars >>

\* The loop's condition and the cancellation check before the attempt.
LoopHead ==
    /\ pc = "loop"
    /\ IF attempt < retryConfig.MaxAttempts
       THEN IF ctxErr # "nil"
            THEN /\ ReturnFromComplete(NilRes, CtxError(ctxErr))
                 /\ UNCHANGED timerFired
            ELSE /\ pc' = IF attempt > 0 THEN "select" ELSE "call"
                 /\ timerFired' = FALSE
                 /\ UNCHANGED << cres, cerr >>
       ELSE /\ pc' = "afterLoop"
            /\ UNCHANGED << timerFired, cres, cerr >>
    /\ UNCHANGED << otherVars, configVars, ctxErr, idx, attempt, wait, res, err, lastErr,
                    histVars, tried, result, telemetryVars >>

\* The timer of time.After(wait) fires.
TimerFire ==
    /\ pc = "select"
    /\ ~timerFired
    /\ timerFired' = TRUE
    /\ UNCHANGED << otherVars, configVars, ctxErr, pc, idx, attempt, wait, res, err, lastErr,
                    histVars, cres, cerr, tried, result, telemetryVars >>

\* select: case <-ctx.Done()
SelectCtxDone ==
    /\ pc = "select"
    /\ ctxErr # "nil"
    /\ ReturnFromComplete(NilRes, CtxError(ctxErr))
    /\ UNCHANGED << otherVars, configVars, ctxErr, idx, loopVars, histVars, tried, result,
                    telemetryVars >>

\* SelectTimer keeping the grown wait in the Completer's retry configuration.
SelectTimer_StoresWait ==
    /\ pc = "select"
    /\ timerFired
    /\ waits' = Append(waits, wait)
    /\ wait' = NextWait(wait, retryConfig.MaxWait)
    /\ retryConfig' = [retryConfig EXCEPT !.InitialWait = NextWait(wait, retryConfig.MaxWait)]
    /\ pc' = "call"
    /\ UNCHANGED << otherVars, op, models, cfgLangfuse, langfuse, ctxErr, idx, attempt,
                    timerFired, res, err, lastErr, ncalls, all5xx429, lastBackend, cres, cerr,
                    tried, result, telemetryVars >>

\* select: case <-time.After(wait)
SelectTimer ==
    /\ pc = "select"
    /\ timerFired
    /\ waits' = Append(waits, wait)
    /\ wait' = NextWait(wait, retryConfig.MaxWait)
    /\ pc' = "call"
    /\ UNCHANGED << otherVars, configVars, ctxErr, idx, attempt, timerFired, res, err, lastErr,
                    ncalls, all5xx429, lastBackend, cres, cerr, tried, result,
                    telemetryVars >>

\* llm.Complete(ctx, params) is called.
CallStart ==
    /\ pc = "call"
    /\ ncalls' = ncalls + 1
    /\ pc' = "inCall"
    /\ UNCHANGED << otherVars, configVars, ctxErr, idx, loopVars, waits, all5xx429, lastBackend,
                    cres, cerr, tried, result, telemetryVars >>

\* llm.Complete returns, and the loop breaks or goes on.
CallReturn ==
    /\ pc = "inCall"
    /\ \E b \in BackendResults(ctxErr) :
          LET r == LLMComplete(models[idx], ncalls, b)
          IN /\ res' = r.res
             /\ err' = r.err
             /\ lastBackend' = b
             /\ all5xx429' = (all5xx429 /\ IsHTTP5xxOr429(b))
             /\ IF r.err = NilErr
                THEN /\ pc' = "afterLoop"
                     /\ UNCHANGED << lastErr, attempt >>
                ELSE /\ lastErr' = r.err
                     /\ IF ~isRetryableError(r.err)
                        THEN /\ pc' = "afterLoop"
                             /\ UNCHANGED attempt
                        ELSE /\ pc' = "loop"
                             /\ attempt' = attempt + 1
    /\ UNCHANGED << otherVars, configVars, ctxErr, idx, wait, timerFired, ncalls, waits,
                    cres, cerr, tried, result, telemetryVars >>

\* AfterLoop starting the telemetry goroutine for a failed call too.
AfterLoop_EmitOnFailure ==
    /\ pc = "afterLoop"
    /\ IF err # NilErr
       THEN /\ ReturnFromComplete(NilRes, Wrap("all completion attempts failed", lastErr))
            /\ tpc' = "start"
       ELSE IF res.nil
       THEN /\ pc' = "panic"
            /\ UNCHANGED << cres, cerr, tpc >>
       ELSE IF res.Messages = 0
       THEN /\ ReturnFromComplete(NilRes, ErrNoMessages)
            /\ UNCHANGED tpc
       ELSE /\ pc' = "spawn"
            /\ UNCHANGED << cres, cerr, tpc >>
    /\ UNCHANGED << otherVars, configVars, ctxErr, idx, loopVars, histVars, tried, result,
                    gpc, gerr, posts, logs, emitCtx, bgCtx >>

\* AfterLoop without the check for an empty message list.
AfterLoop_NoCheck ==
    /\ pc = "afterLoop"
    /\ IF err # NilErr
       THEN /\ pc' = "returned"
            /\ cres' = NilRes
            /\ cerr' = Wrap("all completion attempts failed", lastErr)
       ELSE IF res.nil
       THEN /\ pc' = "panic"
            /\ UNCHANGED << cres, cerr >>
       ELSE /\ pc' = "spawn"
            /\ UNCHANGED << cres, cerr >>
    /\ UNCHANGED << otherVars, configVars, ctxErr, idx, loopVars, histVars, tried, result,
                    telemetryVars >>

\* After the loop: the wrapped last error, the check for messages.  With
\* res still nil (the loop body never ran) len(res.Messages) dereferences nil
\* and the goroutine panics.
AfterLoop ==
    /\ pc = "afterLoop"
    /\ IF err # NilErr
       THEN ReturnFromComplete(NilRes, Wrap("all completion attempts failed", lastErr))
       ELSE IF res.nil
       THEN /\ pc' = "panic"
            /\ UNCHANGED << cres, cerr >>
       ELSE IF res.Messages = 0
       THEN ReturnFromComplete(NilRes, ErrNoMessages)
       ELSE /\ pc' = "spawn"
            /\ UNCHANGED << cres, cerr >>
    /\ UNCHANGED << otherVars, configVars, ctxErr, idx, loopVars, histVars, tried, result,
                    telemetryVars >>

\* go func() { ... }(): the telemetry goroutine is created.
Spawn ==
    /\ pc = "spawn"
    /\ tpc' = "start"
    /\ pc' = "ret"
    /\ UNCHANGED << otherVars, configVars, ctxErr, idx, loopVars, histVars, cres, cerr, tried,
                    result, gpc, gerr, posts, logs, emitCtx, bgCtx >>

\* CompleteReturn joining the telemetry goroutine before it returns.
CompleteReturn_Joins ==
    /\ pc = "ret"
    /\ tpc = "done"
    /\ pc' = "returned"
    /\ cres' = res
    /\ cerr' = NilErr
    /\ UNCHANGED << otherVars, configVars, ctxErr, idx, loopVars, histVars, tried, result,
                    telemetryVars >>

\* return res, nil
CompleteReturn ==
    /\ pc = "ret"
    /\ ReturnFromComplete(res, NilErr)
    /\ UNCHANGED << otherVars, configVars, ctxErr, idx, loopVars, histVars, tried, result,
                    telemetryVars >>

(* ------------------------ CompleteWithFallback ------------------------ *)

\* The invocation returns r, e to its caller.
ReturnToCaller(r, e) ==
    /\ pc' = "done"
    /\ result' = [returned |-> TRUE, res |-> r, err |-> e]

\* AfterComplete going on to the fallbacks after a success too.
AfterComplete_NoShortCircuit ==
    /\ pc = "returned"
    /\ IF op = "Complete"
       THEN /\ ReturnToCaller(cres, cerr)
            /\ UNCHANGED logs
       ELSE IF idx < Len(models)
       THEN /\ pc' = "fallback"
            /\ logs' = logs \cup {"model failed"}
            /\ UNCHANGED result
       ELSE IF cerr = NilErr
       THEN /\ ReturnToCaller(cres, NilErr)
            /\ UNCHANGED logs
       ELSE /\ ReturnToCaller(NilRes, Wrap("all models failed", cerr))
            /\ logs' = logs \cup {"model failed"}
    /\ UNCHANGED << otherVars, configVars, ctxErr, idx, loopVars, histVars, cres, cerr, tried,
                    tpc, gpc, gerr, posts, emitCtx, bgCtx >>

\* AfterComplete returning the last model's error as it is.
AfterComplete_NoWrap ==
    /\ pc = "returned"
    /\ IF op = "Complete"
       THEN /\ ReturnToCaller(cres, cerr)
            /\ UNCHANGED logs
       ELSE IF cerr = NilErr
       THEN /\ ReturnToCaller(cres, NilErr)
            /\ UNCHANGED logs
       ELSE IF idx < Len(models)
       THEN /\ pc' = "fallback"
            /\ logs' = logs \cup {"model failed"}
            /\ UNCHANGED result
       ELSE /\ ReturnToCaller(NilRes, cerr)
            /\ logs' = logs \cup {"model failed"}
    /\ UNCHANGED << otherVars, configVars, ctxErr, idx, loopVars, histVars, cres, cerr, tried,
                    tpc, gpc, gerr, posts, emitCtx, bgCtx >>

\* Complete has returned: to the caller, or into CompleteWithFallback, which
\* returns on success, moves on to the next fallback, or gives up.
AfterComplete ==
    /\ pc = "returned"
    /\ IF op = "Complete"
       THEN /\ ReturnToCaller(cres, cerr)
            /\ UNCHANGED logs
       ELSE IF cerr = NilErr
       THEN /\ ReturnToCaller(cres, NilErr)
            /\ UNCHANGED logs
       ELSE IF idx < Len(models)
       THEN /\ pc' = "fallback"
            /\ logs' = logs \cup {"model failed"}
            /\ UNCHANGED result
       ELSE /\ ReturnToCaller(NilRes, Wrap("all models failed", cerr))
            /\ logs' = logs \cup {"model failed"}
    /\ UNCHANGED << otherVars, configVars, ctxErr, idx, loopVars, histVars, cres, cerr, tried,
                    tpc, gpc, gerr, posts, emitCtx, bgCtx >>

\* Fallback without the cancellation check.
Fallback_NoCheck ==
    /\ pc = "fallback"
    /\ CallComplete(idx + 1)
    /\ UNCHANGED << otherVars, configVars, ctxErr, loopVars, cres, cerr, result, telemetryVars >>

\* The fallback loop's body up to its call of Complete: the cancellation
\* check, then Complete for the next fallback model.
Fallback ==
    /\ pc = "fallback"
    /\ IF ctxErr # "nil"
       THEN /\ ReturnToCaller(NilRes, CtxError(ctxErr))
            /\ UNCHANGED << idx, tried, histVars >>
       ELSE /\ CallComplete(idx + 1)
            /\ UNCHANGED result
    /\ UNCHANGED << otherVars, configVars, ctxErr, loopVars, cres, cerr, telemetryVars >>

\* The request goroutine panicked (nil dereference in Complete): the panic
\* unwinds through the caller, no value is returned.
Panic ==
    /\ pc = "panic"
    /\ pc' = "panicked"
    /\ UNCHANGED << otherVars, configVars, ctxErr, idx, loopVars, histVars, cres, cerr, tried,
                    result, telemetryVars >>

(* ------------------------------ telemetry ----------------------------- *)

\* What the ingestion endpoint, or the code on the way to it, does.
SinkBehaviours == {"ok200", "partial207", "http500", "transportError", "panic"}

\* The process ends on a panic no deferred function recovers.
Crash ==
    /\ pc' = "dead"
    /\ tpc' = "dead"
    /\ gpc' = "dead"
    /\ bgCtx' = "none"

\* The goroutine's deferred function recovers a panic and logs it; the
\* deferred cancel() has released bgCtx.
Recovered ==
    /\ tpc' = "done"
    /\ bgCtx' = "none"
    /\ logs' = logs \cup {"panic while sending trace events"}

\* sendTraceEvents given the caller's context: nothing is sent once that
\* context is cancelled or expired.
SendTraceEvents_CallerCtx ==
    /\ tpc = "start"
    /\ IF ~langfuse \/ ctxErr # "nil"
       THEN /\ tpc' = "done"
            /\ bgCtx' = "none"
            /\ UNCHANGED << gpc, logs >>
       ELSE \/ /\ tpc' = "wait"
               /\ gpc' = "ingest"
               /\ bgCtx' = "nil"
               /\ UNCHANGED logs
            \/ /\ Recovered
               /\ UNCHANGED gpc
    /\ emitCtx' = ctxErr
    /\ UNCHANGED << otherVars, configVars, ctxErr, pc, idx, loopVars, histVars, cres, cerr,
                    tried, result, gerr, posts >>

\* The telemetry goroutine up to g.Wait(): bgCtx with its timeout, then
\* sendTraceEvents: nothing when Langfuse is not configured; else the batch
\* is built (a panic there is recovered by the goroutine's
\* deferred function) and g.Go starts the goroutine that runs Ingest.
SendTraceEvents ==
    /\ tpc = "start"
    /\ IF ~langfuse
       THEN /\ tpc' = "done"
            /\ bgCtx' = "none"
            /\ UNCHANGED << gpc, logs >>
       ELSE \/ /\ tpc' = "wait"
               /\ gpc' = "ingest"
               /\ bgCtx' = "nil"
               /\ UNCHANGED logs
            \/ /\ Recovered
               /\ UNCHANGED gpc
    /\ emitCtx' = ctxErr
    /\ UNCHANGED << otherVars, configVars, ctxErr, pc, idx, loopVars, histVars, cres, cerr,
                    tried, result, gerr, posts >>

\* The function given to g.Go: Ingest and the logging of its outcome.  A
\* panic here is on the errgroup's goroutine, which defers no recover.
Ingest ==
    /\ gpc = "ingest"
    /\ \E s \in SinkBehaviours :
          CASE s = "ok200" ->
                  /\ posts' = posts + 1
                  /\ gerr' = NilErr
                  /\ gpc' = "done"
                  /\ UNCHANGED << logs, pc, tpc, bgCtx >>
            [] s = "partial207" ->
                  /\ posts' = posts + 1
                  /\ gerr' = NilErr
                  /\ logs' = logs \cup {"failed to ingest some events"}
                  /\ gpc' = "done"
                  /\ UNCHANGED << pc, tpc, bgCtx >>
            [] s = "http500" ->
                  /\ posts' = posts + 1
                  /\ gerr' = Wrap("unexpected status code", NilErr)
                  /\ logs' = logs \cup {"failed to send trace events to Langfuse"}
                  /\ gpc' = "done"
                  /\ UNCHANGED << pc, tpc, bgCtx >>
            [] s = "transportError" ->
                  /\ posts' = posts + 1
                  /\ gerr' = Wrap("error sending request", NilErr)
                  /\ logs' = logs \cup {"failed to send trace events to Langfuse"}
                  /\ gpc' = "done"
                  /\ UNCHANGED << pc, tpc, bgCtx >>
            [] OTHER ->
                  /\ Crash
                  /\ UNCHANGED << posts, gerr, logs >>
    /\ UNCHANGED << otherVars, configVars, ctxErr, idx, loopVars, histVars, cres, cerr, tried,
                    result, emitCtx >>

\* The timeout of bgCtx passes while sendTraceEvents waits in g.Wait().
\* Ingest was given no context, and g.Wait() waits for the goroutine, not
\* for the context.
TelemetryTimeout ==
    /\ tpc = "wait"
    /\ bgCtx = "nil"
    /\ bgCtx' = DeadlineExceeded
    /\ UNCHANGED << otherVars, configVars, ctxErr, pc, idx, loopVars, histVars, cres, cerr,
                    tried, result, tpc, gpc, gerr, posts, logs, emitCtx >>

\* g.Wait() returns once the errgroup's goroutine has ended; the telemetry
\* goroutine ends and its deferred cancel() releases bgCtx.
WaitReturn ==
    /\ tpc = "wait"
    /\ gpc = "done"
    /\ tpc' = "done"
    /\ bgCtx' = "none"
    /\ logs' = IF gerr # NilErr THEN logs \cup {"error sending telemetry"} ELSE logs
    /\ UNCHANGED << otherVars, configVars, ctxErr, pc, idx, loopVars, histVars, cres, cerr,
                    tried, result, gpc, gerr, posts, emitCtx >>

(* ---------------------------- specification --------------------------- *)

Next ==
    \/ Cancel
    \/ Expire
    \/ Start
    \/ Enter
    \/ LoopHead
    \/ TimerFire
    \/ SelectCtxDone
    \/ SelectTimer
    \/ CallStart
    \/ CallReturn
    \/ AfterLoop
    \/ Spawn
    \/ CompleteReturn
    \/ AfterComplete
    \/ Fallback
    \/ Panic
    \/ SendTraceEvents
    \/ Ingest
    \/ TelemetryTimeout
    \/ WaitReturn

Spec == Init /\ [][Next]_vars

(* ------------------------------- claims ------------------------------- *)

\* The error the latest finished attempt of the running Complete returned.
LastAttemptErr == LLMComplete(models[idx], ncalls, lastBackend).err

\* The request goroutine is past the retry loop of the running Complete.
PastLoop == pc \in {"afterLoop", "returned", "fallback", "done"}

\* C1: when every attempt of a Complete call fails with HTTP 5xx or 429 and
\* the context is never cancelled, the call makes exactly MaxAttempts
\* provider calls and returns nil with the last attempt's error wrapped
\* under "all completion attempts failed".
C1_ExhaustsAttempts ==
    (pc = "returned" /\ ncalls >= 1 /\ all5xx429 /\ ctxErr = "nil")
    => /\ ncalls = retryConfig.MaxAttempts
       /\ cres = NilRes
       /\ cerr = Wrap("all completion attempts failed", LastAttemptErr)
       /\ ErrorsIs(cerr, LastAttemptErr[Len(LastAttemptErr)].kind)

\* An error that is none of the three kinds Complete retries.
NonRetryable(e) ==
    /\ e # NilErr
    /\ ~ErrorsIs(e, ErrServiceUnavailable)
    /\ ~ErrorsIs(e, ErrTooManyRequests)
    /\ ~ErrorsIs(e, DeadlineExceeded)

\* C2: once an attempt has returned a non-retryable error the Complete call
\* is past its loop: no wait is started and no further attempt is made (one
\* call and no wait when it was the first attempt), and what Complete
\* returns is nil with an error.
C2_NoRetry ==
    (lastBackend.type # "none" /\ NonRetryable(LastAttemptErr))
    => /\ PastLoop
       /\ attempt = ncalls - 1
       /\ Len(waits) = ncalls - 1
       /\ (attempt = 0 => ncalls = 1 /\ waits = << >>)
       /\ (pc = "returned" => cres = NilRes /\ cerr # NilErr)

\* A first attempt answered HTTP 401 ended a Complete call that had three
\* attempts to spend.
C2_Witness ==
    /\ pc = "returned"
    /\ retryConfig.MaxAttempts = 3
    /\ lastBackend.StatusCode = 401
    /\ ncalls = 1
    /\ cerr # NilErr

\* C3: a context found cancelled at the check before an attempt or during
\* the backoff wait makes Complete return nil and the context's error as its
\* next step, with no further provider call, whichever of the timer and the
\* cancellation the select finds ready.
C3_CancelAborts ==
    [][ ( /\ \/ pc = "loop" /\ attempt < retryConfig.MaxAttempts
             \/ pc = "select"
          /\ ctxErr # "nil"
          /\ pc' # pc )
        => ( /\ pc' = "returned"
             /\ cres' = NilRes
             /\ cerr' = CtxError(ctxErr)
             /\ ncalls' = ncalls ) ]_vars

C5_AllModelsFailed ==
    ( /\ op = "CompleteWithFallback"
      /\ result.returned
      /\ idx = Len(models)
      /\ cerr # NilErr )
    => /\ tried = models
       /\ result.res = NilRes
       /\ result.err = Wrap("all models failed", cerr)

\* The primary and one fallback both failed, the fallback with HTTP 401.
C5_Witness ==
    /\ op = "CompleteWithFallback"
    /\ result.returned
    /\ Len(models) = 2
    /\ idx = 2
    /\ lastBackend.StatusCode = 401
    /\ ErrorsIs(result.err, "all models failed")
    /\ ErrorsIs(result.err, ErrInvalidAPIKey)

\* C6: a provider call that returns no error and no message makes Complete
\* return nil and ErrNoMessages, and a Complete call that returns a nil
\* error returns a response with at least one message.
C6_NoMessages ==
    /\ ( /\ pc = "returned"
         /\ lastBackend.type = "ok"
         /\ LastAttemptErr = NilErr
         /\ lastBackend.n = 0 )
       => (cres = NilRes /\ cerr = ErrNoMessages)
    /\ (pc = "returned" /\ cerr = NilErr) => (~cres.nil /\ cres.Messages >= 1)
    /\ (result.returned /\ result.err = NilErr)
          => (~result.res.nil /\ result.res.Messages >= 1)

\* The Ollama client returned a response without messages and Complete
\* returned ErrNoMessages.
C6_Witness ==
    /\ pc = "returned"
    /\ lastBackend = BackendOK(0)
    /\ LastAttemptErr = NilErr
    /\ cerr = ErrNoMessages

\* C7: no step of the telemetry emission, whatever the sink does, changes
\* the request goroutine's position or what Complete and the invocation
\* return: the caller's result is the same for every behaviour of the sink.
C7_TelemetryAbsorbed ==
    [][ (SendTraceEvents \/ Ingest \/ WaitReturn)
        => UNCHANGED << pc, cres, cerr, result >> ]_vars

\* C8: at its return statement Complete can return whatever the state of the
\* telemetry goroutine, and so can the invocation return to its caller.
C8_ReturnNotBlocked ==
    /\ pc = "ret" => ENABLED CompleteReturn
    /\ pc = "returned" => ENABLED AfterComplete

\* The caller has its response while Ingest has not answered.
C8_Witness ==
    /\ result.returned
    /\ result.err = NilErr
    /\ tpc = "wait"
    /\ gpc = "ingest"

\* C9: with the context never cancelled, a Complete call whose attempt k
\* succeeds with a message returns that attempt's response and a nil error
\* after k provider calls and k-1 backoff waits.
C9_SuccessAfterRetries ==
    ( /\ pc = "returned"
      /\ ctxErr = "nil"
      /\ lastBackend.type = "ok"
      /\ lastBackend.n >= 1 )
    => /\ cres = Response(models[idx], ncalls, lastBackend.n)
       /\ cerr = NilErr
       /\ ncalls <= retryConfig.MaxAttempts
       /\ attempt = ncalls - 1
       /\ Len(waits) = ncalls - 1

\* 503, 503, 200: the third attempt's response after two retries.
C9_Witness ==
    /\ pc = "returned"
    /\ ctxErr = "nil"
    /\ retryConfig.MaxAttempts = DefaultMaxAttempts
    /\ ncalls = 3
    /\ Len(waits) = 2
    /\ cerr = NilErr
    /\ cres = Response(models[idx], 3, 1)

\* C10: a context found cancelled before a fallback model makes
\* CompleteWithFallback return nil and the context's error as its next
\* step, with no call of Complete for that fallback; and Complete is called
\* for no model after the invocation has returned.
C10_FallbackCancel ==
    [][ /\ (pc = "fallback" /\ ctxErr # "nil" /\ pc' # pc)
           => /\ pc' = "done"
              /\ result' = [returned |-> TRUE, res |-> NilRes, err |-> CtxError(ctxErr)]
              /\ tried' = tried
              /\ ncalls' = ncalls
        /\ pc = "done" => (tried' = tried /\ ncalls' = ncalls) ]_vars

\* The context was cancelled when the fallback's turn came: the invocation
\* returned its error with the fallback untried.
C10_Witness ==
    /\ op = "CompleteWithFallback"
    /\ result.returned
    /\ result.err = CtxError(Canceled)
    /\ Len(models) = 2
    /\ tried = << models[1] >>
    /\ ErrorsIs(cerr, "all completion attempts failed")

\* C11: cancellation or expiry of the caller's context after Complete has
\* produced a successful response does not touch the telemetry emission: the
\* step that cancels or expires changes nothing of the telemetry goroutines,
\* with the context cancelled sendTraceEvents still starts the ingestion
\* (or ends by the recovered panic), the ingestion still makes its POST, and
\* g.Wait() still returns.
C11_TelemetryDetached ==
    /\ [](ctxErr # "nil" =>
            /\ (tpc = "start" /\ langfuse) =>
                   ENABLED (SendTraceEvents /\ gpc' = "ingest")
            /\ gpc = "ingest" => ENABLED (Ingest /\ posts' = posts + 1)
            /\ (tpc = "wait" /\ gpc = "done") => ENABLED WaitReturn)
    /\ [][ /\ (ctxErr = "nil" /\ ctxErr' # "nil") => UNCHANGED telemetryVars
           /\ (langfuse /\ ctxErr # "nil" /\ tpc = "start" /\ tpc' = "done")
                 => "panic while sending trace events" \in logs' ]_vars

\* The telemetry was emitted, POST included, by a sendTraceEvents that ran
\* after the caller's context had been cancelled or had expired.
C11_Witness ==
    /\ emitCtx \in {Canceled, DeadlineExceeded}
    /\ tpc = "done"
    /\ posts = 1

\* C12: a Complete for a model whose provider is neither OpenAI nor Ollama
\* returns a nil response and the error of getAPIKeyFunc, which comes before
\* the client's construction: no provider call, no backoff wait, no
\* telemetry goroutine and no POST.
C12_UnsupportedProvider ==
    (pc = "returned" /\ Provider(models[idx]) \notin {OpenAI, Ollama}) =>
        /\ cres = NilRes
        /\ cerr = Wrap("failed to get API key", Sentinel("provider is not supported"))
        /\ ncalls = 0
        /\ waits = << >>
        /\ tpc = "none"
        /\ gpc = "none"
        /\ posts = 0

\* Complete has returned for the model of another provider.
C12_Witness ==
    /\ pc = "returned"
    /\ models[idx] = ModelOther
    /\ cerr # NilErr

\* C14: when the Langfuse public key or private key is empty, no invocation
\* starts the ingestion goroutine or makes a POST, the telemetry goroutine
\* logs nothing and ends the process never; and whatever the keys are, the
\* result an invocation returns is the one computed from the provider's
\* outcome alone: a success is the response of the last attempt.
C14_NoSinkNoIngest ==
    /\ [](/\ (cfgLangfuse.PublicKey = "" \/ cfgLangfuse.PrivateKey = "") =>
               /\ posts = 0
               /\ gpc = "none"
               /\ gerr = NilErr
               /\ pc # "dead"
               /\ logs \cap {"panic while sending trace events",
                             "failed to ingest some events",
                             "failed to send trace events to Langfuse",
                             "error sending telemetry"} = {}
          /\ (result.returned /\ result.err = NilErr) =>
               /\ lastBackend.type = "ok"
               /\ result.res = Response(models[idx], ncalls, lastBackend.n)
          /\ (result.returned /\ result.err # NilErr) =>
               /\ result.res = NilRes
               /\ result.err \in {cerr, Wrap("all models failed", cerr),
                                 CtxError(ctxErr)})
    /\ [][ ( /\ cfgLangfuse.PublicKey = "" \/ cfgLangfuse.PrivateKey = ""
             /\ tpc = "start"
             /\ tpc' # tpc )
           => /\ tpc' = "done"
              /\ UNCHANGED << pc, cres, cerr, result, posts, gpc, logs >> ]_vars

\* With only the public key set, a successful invocation has returned and
\* its telemetry goroutine has ended without a POST.
C14_Witness ==
    /\ cfgLangfuse = [PublicKey |-> "key", PrivateKey |-> ""]
    /\ result.returned
    /\ result.err = NilErr
    /\ tpc = "done"
    /\ posts = 0

\* The error the provider client returned for the latest backend result is
\* an LLMError of the given kind flagged Retryable.
MappedRetryable(kind) ==
    /\ err # NilErr
    /\ err[1].llm
    /\ err[1].Retryable
    /\ err[1].StatusCode = lastBackend.StatusCode
    /\ Tail(err) = Sentinel(kind)

\* C17 as stated: each provider client maps every backend error response of
\* status 500..599 to a retryable ServiceUnavailable and every one of status
\* 429 to a retryable TooManyRequests.
C17_StatusMappingAny ==
    lastBackend.type = "status" =>
        /\ (lastBackend.StatusCode >= 500 /\ lastBackend.StatusCode < 600)
              => MappedRetryable(ErrServiceUnavailable)
        /\ lastBackend.StatusCode = 429 => MappedRetryable(ErrTooManyRequests)

\* C17: each provider client maps a backend error response of status
\* 500..599 to a retryable ServiceUnavailable and one of status 429 to a
\* retryable TooManyRequests, unless, for the openai client, the response
\* carries one of the error codes that client maps first; the ollama client
\* maps by the status alone.
C17_StatusMapping ==
    ( /\ lastBackend.type = "status"
      /\ Provider(models[idx]) = OpenAI => lastBackend.Code \notin OpenAIMappedCodes )
    => /\ (lastBackend.StatusCode >= 500 /\ lastBackend.StatusCode < 600)
             => MappedRetryable(ErrServiceUnavailable)
       /\ lastBackend.StatusCode = 429 => MappedRetryable(ErrTooManyRequests)

\* The ollama client has mapped a 429 that carries an error code.
C17_Witness ==
    /\ lastBackend.type = "status"
    /\ Provider(models[idx]) = Ollama
    /\ lastBackend.StatusCode = 429
    /\ lastBackend.Code = ErrCodeRateLimitExceeded
    /\ MappedRetryable(ErrTooManyRequests)

\* C18: when the backend call succeeds with no message, the provider
\* client returns the NoMessages error and a nil response.
C18_ClientNoMessages ==
    (lastBackend.type = "ok" /\ lastBackend.n = 0) =>
        /\ err = ErrNoMessages
        /\ res = NilRes

\* C19: when the provider client returns an error that llm.IsRetryable
\* accepts (its LLMError is flagged Retryable), attempts remain and the
\* context is not cancelled, Complete does not leave the loop: it makes a
\* further attempt.
C19_FlaggedIsRetried ==
    ~ ( /\ pc = "afterLoop"
        /\ err # NilErr
        /\ IsRetryable(err)
        /\ attempt + 1 < retryConfig.MaxAttempts
        /\ ctxErr = "nil" )

\* C21: after a failed attempt Complete makes another attempt exactly when
\* attempts remain, the context is not cancelled and the attempt's error
\* chain holds ErrServiceUnavailable, ErrTooManyRequests or the context's
\* deadline-exceeded error; any other error ends the loop at once.  The
\* failed attempt's return goes back to the loop only on such an error, the
\* backoff's select goes on to the next attempt only with attempts left and
\* the context not cancelled, and with both it never gives up.
C21_RetryDecision ==
    [][ /\ ( pc = "inCall" /\ pc' # pc /\ err' # NilErr )
           => /\ pc' = (IF isRetryableError(err') THEN "loop" ELSE "afterLoop")
              /\ attempt' = (IF isRetryableError(err') THEN attempt + 1 ELSE attempt)
        /\ ( pc = "select" /\ pc' = "call" )
           => /\ isRetryableError(err)
              /\ attempt < retryConfig.MaxAttempts
              /\ ctxErr = "nil"
        /\ ( /\ pc \in {"loop", "select"}
             /\ pc' # pc
             /\ attempt >= 1
             /\ attempt < retryConfig.MaxAttempts
             /\ ctxErr = "nil" )
           => pc' \in {"select", "call"}
      ]_vars

\* C22: at most one provider call is in flight at any time.  A provider
\* call begins only by the request goroutine's step from "call" to "inCall";
\* attempt i+1 begins only after attempt i has returned and the backoff wait
\* after it has ended, and a fallback model's first attempt begins only after
\* the Complete call of the model before it has returned an error.
C22_OneCallInFlight ==
    [][ ncalls' # ncalls
        => \/ /\ pc \in {"start", "fallback"}
              /\ pc' = "enter"
              /\ ncalls' = 0
           \/ /\ pc = "call"
              /\ pc' = "inCall"
              /\ ncalls' = ncalls + 1
              /\ ncalls >= 1
                   => /\ lastBackend # NoBackend
                      /\ err # NilErr
                      /\ Len(waits) = ncalls
              /\ (ncalls = 0 /\ idx > 1)
                   => /\ cerr # NilErr
                      /\ cres = NilRes
                      /\ tried = SubSeq(models, 1, idx)
      ]_vars

\* A fallback model's second attempt is in flight.
C22_Witness ==
    /\ pc = "inCall"
    /\ idx = 2
    /\ ncalls = 2
    /\ Len(waits) = 1

\* C23: no wait precedes the first attempt of a Complete call, the wait
\* before the first retry is InitialWait, and every later wait is the wait
\* before it times Factor, capped at MaxWait; so the waits of a call never
\* decrease and none exceeds MaxWait.
C23_BackoffWaits ==
    /\ pc = "inCall" => Len(waits) = ncalls - 1
    /\ ncalls = 0 => waits = << >>
    /\ waits # << >> => waits[1] = retryConfig.InitialWait
    /\ \A i \in 2..Len(waits) : waits[i] = NextWait(waits[i - 1], retryConfig.MaxWait)
    /\ \A i \in 2..Len(waits) : waits[i - 1] <= waits[i]
    /\ \A i \in 1..Len(waits) : waits[i] <= retryConfig.MaxWait

\* C24: the telemetry emission is bounded by its own timeout: once the
\* 5-second timeout of bgCtx has passed, the telemetry goroutine can end,
\* giving up its wait for the ingestion POST, even when the POST has not
\* returned yet.
C24_TelemetryTimeoutEnds ==
    (tpc = "wait" /\ bgCtx = DeadlineExceeded) => ENABLED (Next /\ tpc' = "done")

\* The error of a Complete call whose attempts were used up on retryable
\* errors.
ExhaustedRetryably(e) ==
    /\ e # NilErr
    /\ e[1] = Layer("all completion attempts failed")
    /\ isRetryableError(Tail(e))

\* C25: every model CompleteWithFallback tries has a retry budget of its
\* own: each model is tried at most once, its Complete call starts with the
\* attempt counter at zero and the wait at InitialWait whatever the models
\* before it used, makes at most MaxAttempts provider calls, and makes
\* exactly MaxAttempts when its attempts all fail retryably; so an
\* invocation with N fallbacks makes at most (N+1) * MaxAttempts provider
\* calls, all of them when every attempt fails retryably.
C25_FreshBudget ==
    /\ tried = SubSeq(models, 1, idx)
    /\ idx <= Len(models)
    /\ ncalls <= retryConfig.MaxAttempts
    /\ (pc = "loop" /\ ncalls = 0)
         => /\ attempt = 0
            /\ wait = retryConfig.InitialWait
            /\ waits = << >>
    /\ (pc = "returned" /\ ExhaustedRetryably(cerr))
         => /\ ncalls = retryConfig.MaxAttempts
            /\ attempt = retryConfig.MaxAttempts

\* The last fallback has used up its MaxAttempts attempts on retryable
\* errors after the primary model had used up its own.
C25_Witness ==
    /\ idx = 2
    /\ Len(models) = 2
    /\ pc = "afterLoop"
    /\ retryConfig.MaxAttempts = MaxAttemptsBound
    /\ ncalls = retryConfig.MaxAttempts
    /\ isRetryableError(err)
    /\ ExhaustedRetryably(cerr)

\* C26: with every provider call returning and every backoff timer firing,
\* every Complete invocation returns, on the first success, a non-retryable
\* failure, MaxAttempts used up or cancellation, and so does every
\* CompleteWithFallback invocation: the request goroutine never ends in any
\* other way than by returning to its caller.
C26_InvocationReturns ==
    pc \in {"panic", "panicked", "dead"} => result.returned

C29_ResponseXorError ==
    /\ pc \notin {"panic", "panicked"}
    /\ pc = "returned"
         => \/ /\ ~cres.nil
               /\ cres.Messages >= 1
               /\ cerr = NilErr
            \/ /\ cres = NilRes
               /\ cerr # NilErr

\* C30: a telemetry emission is started only after a Complete call has got a
\* successful response with at least one message, and at most once per
\* call: a call that fails, is cancelled or gets no messages starts none, and
\* an invocation of CompleteWithFallback starts at most one, for the model
\* whose call succeeded, trying no model after it.
C30_EmissionOncePerSuccess ==
    /\ [](/\ tpc # "none"
               => /\ pc \in {"ret", "returned", "done", "dead"}
                  /\ lastBackend.type = "ok"
                  /\ lastBackend.n >= 1
                  /\ err = NilErr
                  /\ res = Response(models[idx], ncalls, lastBackend.n)
                  /\ res.Messages >= 1
                  /\ idx = Len(tried)
          /\ (pc = "returned" /\ cerr # NilErr) => (tpc = "none" /\ gpc = "none")
          /\ (result.returned /\ result.err # NilErr) => (tpc = "none" /\ gpc = "none")
          /\ posts <= 1)
    /\ [][ /\ (tpc' # tpc /\ tpc' = "start") => (tpc = "none" /\ pc = "spawn")
           /\ (gpc' # gpc /\ gpc' = "ingest") => (gpc = "none" /\ tpc = "start")
           /\ tpc # "none" => (tried' = tried /\ idx' = idx /\ ncalls' = ncalls) ]_vars

\* The fallback model's call succeeded after the primary model's had
\* failed, and the one emission, for the fallback's response, has ended.
C30_Witness ==
    /\ op = "CompleteWithFallback"
    /\ idx = 2
    /\ result.returned
    /\ result.err = NilErr
    /\ result.res.model = models[2]
    /\ tpc = "done"
    /\ posts = 1

(* -------------------------- the model registry ------------------------ *)

\* The concurrent calls: two of RegisterLLM, one of NewRegistry, one of New.
Registrars == {"r1", "r2"}

RegistryReaders == {"n1"}

NewCallers == {"w1"}

CallIds == Registrars \cup RegistryReaders \cup NewCallers

\* The arguments of a RegisterLLM call: a constructor, named by its
\* provider package, and the models.  The first two are the calls of the
\* init functions of the provider packages.
RegisterArgs ==
    { [constructor |-> OpenAI, models |-> << ModelGPT4o >>],
      [constructor |-> Ollama, models |-> << ModelTinySwallow >>],
      [constructor |-> Ollama, models |-> << ModelTinySwallow, ModelOther >>],
      [constructor |-> OpenAI, models |-> << ModelGPT4o, ModelTinySwallow >>],
      [constructor |-> OpenAI, models |-> << >>] }

\* The values of cfg.LLM.Ollama.BaseURL.
OllamaBaseURLs == {"", "http://localhost:11434"}

\* A call that has not started.
Call(fn, constructor, ms, keyFunc) ==
    [fn |-> fn, constructor |-> constructor, models |-> ms, keyFunc |-> keyFunc,
     pc |-> "idle", i |-> 0, result |-> << >>, err |-> ""]

\* Ollama.IsConfigured with the check of the base URL left out.
OllamaIsConfigured_Always(o) == TRUE

\* Ollama.IsConfigured: the base URL is set.
OllamaIsConfigured(o) == o.BaseURL # ""

\* The models NewRegistry's loop appends: those of OpenAI, and those of
\* Ollama when Ollama is configured; the switch has no other case.
NewRegistryModels(map, o) ==
    { m \in DOMAIN map :
        \/ Provider(m) = OpenAI
        \/ Provider(m) = Ollama /\ OllamaIsConfigured(o) }

\* The orders in which ranging over a map can yield the keys S.
OrdersOf(S) ==
    { s \in [1..Cardinality(S) -> S] : \A m \in S : \E i \in 1..Cardinality(S) : s[i] = m }

\* The elements of a sequence.
Range(s) == { s[i] : i \in 1..Len(s) }

RegistryInit ==
    /\ cfgOllama \in [BaseURL : OllamaBaseURLs]
    /\ supportedMap = << >>
    /\ modelRegistryMu = [writer |-> "", readers |-> {}]
    /\ \E ra \in [Registrars -> RegisterArgs], m \in Models, kf \in BOOLEAN :
          calls = [p \in CallIds |->
                     IF p \in Registrars
                     THEN Call("RegisterLLM", ra[p].constructor, ra[p].models, TRUE)
                     ELSE IF p \in RegistryReaders
                     THEN Call("NewRegistry", "", << >>, TRUE)
                     ELSE Call("New", "", << m >>, kf)]
    /\ CompleterIdle
    /\ ClientIdle
    /\ EnvIdle

\* Lock returns when no goroutine holds the mutex.
CanLock == modelRegistryMu.writer = "" /\ modelRegistryMu.readers = {}

\* RLock returns when no writer holds the mutex and none is blocked in Lock.
CanRLock ==
    /\ modelRegistryMu.writer = ""
    /\ \A q \in CallIds : calls[q].pc # "lock"

RUnlock(p) ==
    modelRegistryMu' = [modelRegistryMu EXCEPT !.readers = @ \ {p}]

\* RegisterLLM is called and blocks in Lock.
RegisterLLMCall(p) ==
    /\ calls[p].fn = "RegisterLLM"
    /\ calls[p].pc = "idle"
    /\ calls' = [calls EXCEPT ![p].pc = "lock"]
    /\ UNCHANGED << cfgOllama, supportedMap, modelRegistryMu, completerVars,
                    clientVars, envVars >>

\* RegisterLLM taking the mutex for reading.
RegisterLLMLock_Shared(p) ==
    /\ calls[p].pc = "lock"
    /\ modelRegistryMu.writer = ""
    /\ modelRegistryMu' = [modelRegistryMu EXCEPT !.readers = @ \cup {p}]
    /\ calls' = [calls EXCEPT ![p].pc = "write", ![p].i = 1]
    /\ UNCHANGED << cfgOllama, supportedMap, completerVars, clientVars, envVars >>

\* modelRegistryMu.Lock() returns.
RegisterLLMLock(p) ==
    /\ calls[p].pc = "lock"
    /\ CanLock
    /\ modelRegistryMu' = [modelRegistryMu EXCEPT !.writer = p]
    /\ calls' = [calls EXCEPT ![p].pc = "write", ![p].i = 1]
    /\ UNCHANGED << cfgOllama, supportedMap, completerVars, clientVars, envVars >>

\* One iteration of RegisterLLM's loop: the map entry of the i-th model.
RegisterLLMWrite(p) ==
    /\ calls[p].pc = "write"
    /\ calls[p].i <= Len(calls[p].models)
    /\ LET m == calls[p].models[calls[p].i]
       IN supportedMap' =
            [k \in DOMAIN supportedMap \cup {m} |->
               IF k = m THEN calls[p].constructor ELSE supportedMap[k]]
    /\ calls' = [calls EXCEPT ![p].i = @ + 1]
    /\ UNCHANGED << cfgOllama, modelRegistryMu, completerVars, clientVars, envVars >>

\* RegisterLLM returns: the deferred Unlock.
RegisterLLMReturn(p) ==
    /\ calls[p].pc = "write"
    /\ calls[p].i > Len(calls[p].models)
    /\ modelRegistryMu' = [modelRegistryMu EXCEPT !.writer = ""]
    /\ calls' = [calls EXCEPT ![p].pc = "done"]
    /\ UNCHANGED << cfgOllama, supportedMap, completerVars, clientVars, envVars >>

\* NewRegistry is called: modelRegistryMu.RLock() returns.
NewRegistryRLock(p) ==
    /\ calls[p].fn = "NewRegistry"
    /\ calls[p].pc = "idle"
    /\ CanRLock
    /\ modelRegistryMu' = [modelRegistryMu EXCEPT !.readers = @ \cup {p}]
    /\ calls' = [calls EXCEPT ![p].pc = "read"]
    /\ UNCHANGED << cfgOllama, supportedMap, completerVars, clientVars, envVars >>

\* NewRegistry ranges over the map, in an order the map chooses, and
\* returns the Registry; the deferred RUnlock.
NewRegistryReturn(p) ==
    /\ calls[p].fn = "NewRegistry"
    /\ calls[p].pc = "read"
    /\ \E ms \in OrdersOf(NewRegistryModels(supportedMap, cfgOllama)) :
          calls' = [calls EXCEPT ![p].pc = "done", ![p].result = ms]
    /\ RUnlock(p)
    /\ UNCHANGED << cfgOllama, supportedMap, completerVars, clientVars, envVars >>

\* New is called: the error for a nil APIKeyFunc, else RLock returns.
NewRLock(p) ==
    /\ calls[p].fn = "New"
    /\ calls[p].pc = "idle"
    /\ IF ~calls[p].keyFunc
       THEN /\ calls' = [calls EXCEPT ![p].pc = "done",
                                      ![p].err = "API key function is required"]
            /\ UNCHANGED modelRegistryMu
       ELSE /\ CanRLock
            /\ modelRegistryMu' = [modelRegistryMu EXCEPT !.readers = @ \cup {p}]
            /\ calls' = [calls EXCEPT ![p].pc = "read"]
    /\ UNCHANGED << cfgOllama, supportedMap, completerVars, clientVars, envVars >>

\* New looks the model up, RUnlock, and returns what the model's
\* constructor returns, or the error for a model that is not in the map.
NewLookup(p) ==
    /\ calls[p].fn = "New"
    /\ calls[p].pc = "read"
    /\ LET m == calls[p].models[1]
       IN IF m \in DOMAIN supportedMap
          THEN calls' = [calls EXCEPT ![p].pc = "done",
                                     ![p].result = << supportedMap[m] >>]
          ELSE calls' = [calls EXCEPT ![p].pc = "done",
                                     ![p].err = "model is not supported"]
    /\ RUnlock(p)
    /\ UNCHANGED << cfgOllama, supportedMap, completerVars, clientVars, envVars >>

RegistryNext ==
    \/ \E p \in CallIds : RegisterLLMCall(p)
    \/ \E p \in CallIds : RegisterLLMLock(p)
    \/ \E p \in CallIds : RegisterLLMWrite(p)
    \/ \E p \in CallIds : RegisterLLMReturn(p)
    \/ \E p \in CallIds : NewRegistryRLock(p)
    \/ \E p \in CallIds : NewRegistryReturn(p)
    \/ \E p \in CallIds : NewRLock(p)
    \/ \E p \in CallIds : NewLookup(p)

SpecRegistry == RegistryInit /\ [][RegistryNext]_vars

\* The models passed to the RegisterLLM calls that have started.
PassedModels ==
    UNION { Range(calls[p].models) : p \in { q \in Registrars : calls[q].pc # "idle" } }

\* C13: NewRegistry(cfg) returns exactly the models in the map whose provider
\* is usable, each once: a registered OpenAI model always, a registered
\* Ollama model if and only if the Ollama base URL is not empty, no model of
\* another provider, and no model that no RegisterLLM call was given.
C13_RegistryModels ==
    /\ [](\A p \in RegistryReaders :
            Range(calls[p].result) \subseteq PassedModels)
    /\ [][\A p \in RegistryReaders :
            (calls[p].pc = "read" /\ calls'[p].pc = "done") =>
               /\ Range(calls'[p].result) =
                     { m \in DOMAIN supportedMap :
                         \/ Provider(m) = OpenAI
                         \/ Provider(m) = Ollama /\ cfgOllama.BaseURL # "" }
               /\ Len(calls'[p].result) = Cardinality(Range(calls'[p].result)) ]_vars

\* NewRegistry returned the registered OpenAI model and left the registered
\* Ollama model out, the Ollama base URL being empty.
C13_Witness ==
    /\ \A p \in Registrars : calls[p].pc = "done"
    /\ cfgOllama.BaseURL = ""
    /\ {ModelGPT4o, ModelTinySwallow} \subseteq DOMAIN supportedMap
    /\ calls["n1"].pc = "done"
    /\ calls["n1"].result = << ModelGPT4o >>

\* C15: under every interleaving of the RegisterLLM, NewRegistry and New
\* calls, while a RegisterLLM call is between Lock and Unlock, where it
\* writes the map, no other call is between its Lock or RLock and its
\* unlock, where it reads or writes the map; and a RegisterLLM call that has
\* returned has left every model it was given in the map.
C15_RegistryExclusive ==
    /\ \A p \in Registrars :
          calls[p].pc = "write" =>
             \A q \in CallIds \ {p} : calls[q].pc \notin {"write", "read"}
    /\ \A p \in Registrars :
          calls[p].pc = "done" => Range(calls[p].models) \subseteq DOMAIN supportedMap

\* Every call has returned, the two RegisterLLM calls having registered
\* different models, and NewRegistry ran in between them: its result lacks
\* a model it would return now.
C15_Witness ==
    /\ \A p \in CallIds : calls[p].pc = "done"
    /\ Range(calls["r1"].models) # Range(calls["r2"].models)
    /\ \E m \in NewRegistryModels(supportedMap, cfgOllama) :
          m \notin Range(calls["n1"].result)

(* ------------------- the provider clients' requests ------------------- *)

\* The longest message sequence given to a client.
MaxMessages == 2

RoleSystem == "system"

RoleUser == "user"

RoleAssistant == "assistant"

RoleFunction == "function"

\* The four roles of a Message.
Roles == {RoleSystem, RoleUser, RoleAssistant, RoleFunction}

\* A string is the sequence of the pieces it is made of.
Contents == { << "c1" >>, << "c2" >> }

\* The messages a caller can build: Role is a string type, so a message can
\* carry a role that is none of the four; Name is set on function messages.
MessageSet ==
    { [Role |-> r, Content |-> c, Name |-> IF r = RoleFunction THEN << "f" >> ELSE << >>] :
        r \in Roles \cup {"tool"}, c \in Contents }

\* fmt.Sprintf("Function %s returned: %s", name, content)
FunctionReturned(name, content) ==
    << "Function " >> \o name \o << " returned: " >> \o content

\* The index of the first message of ms whose role has no case among
\* cases, or 0.
FirstUnsupported(ms, cases) ==
    IF \E i \in 1..Len(ms) : ms[i].Role \notin cases
    THEN CHOOSE i \in 1..Len(ms) :
            ms[i].Role \notin cases /\ \A j \in 1..(i - 1) : ms[j].Role \in cases
    ELSE 0

\* The openai client's conversion of one message.
OpenAIMessage(m) ==
    CASE m.Role = RoleUser -> [Role |-> "user", Content |-> m.Content]
      [] m.Role = RoleAssistant -> [Role |-> "assistant", Content |-> m.Content]
      [] m.Role = RoleSystem -> [Role |-> "system", Content |-> m.Content]
      [] m.Role = RoleFunction ->
            [Role |-> "user", Content |-> FunctionReturned(m.Name, m.Content)]

\* The roles the openai client's switch has a case for.
OpenAIRoles == {RoleUser, RoleAssistant, RoleSystem, RoleFunction}

\* The openai client's loop over params.Messages: the request's messages,
\* or the error of the first message whose role has no case.
OpenAIMessages(ms) ==
    LET bad == FirstUnsupported(ms, OpenAIRoles)
    IN IF bad # 0
       THEN [err |-> Sentinel("unsupported role: " \o ms[bad].Role), messages |-> << >>]
       ELSE [err |-> NilErr, messages |-> [i \in 1..Len(ms) |-> OpenAIMessage(ms[i])]]

\* The ollama client's conversion of one message.
OllamaMessage(m) ==
    CASE m.Role = RoleUser -> [Role |-> "user", Content |-> m.Content]
      [] m.Role = RoleAssistant -> [Role |-> "assistant", Content |-> m.Content]
      [] m.Role = RoleSystem -> [Role |-> "system", Content |-> m.Content]

\* The roles the ollama client's switch converts: the function role falls
\* through to the default case.
OllamaRoles == {RoleUser, RoleAssistant, RoleSystem}

\* The ollama client's loop over params.Messages.
OllamaMessages(ms) ==
    LET bad == FirstUnsupported(ms, OllamaRoles)
    IN IF bad # 0
       THEN [err |-> Sentinel("unsupported role: " \o ms[bad].Role), messages |-> << >>]
       ELSE [err |-> NilErr, messages |-> [i \in 1..Len(ms) |-> OllamaMessage(ms[i])]]

ClientInit ==
    /\ messages \in SeqsOf(MessageSet, 0, MaxMessages)
    /\ client = "none"
    /\ request = << >>
    /\ requestErr = NilErr
    /\ CompleterIdle
    /\ RegistryIdle
    /\ EnvIdle

\* Client.Complete of the openai client up to the request it sends.
OpenAIBuildRequest ==
    /\ client = "none"
    /\ client' = OpenAI
    /\ request' = OpenAIMessages(messages).messages
    /\ requestErr' = OpenAIMessages(messages).err
    /\ UNCHANGED << messages, completerVars, registryVars, envVars >>

\* Client.Complete of the ollama client up to the request it sends.
OllamaBuildRequest ==
    /\ client = "none"
    /\ client' = Ollama
    /\ request' = OllamaMessages(messages).messages
    /\ requestErr' = OllamaMessages(messages).err
    /\ UNCHANGED << messages, completerVars, registryVars, envVars >>

ClientNext ==
    \/ OpenAIBuildRequest
    \/ OllamaBuildRequest

SpecClient == ClientInit /\ [][ClientNext]_vars

\* C16: for each provider client and every sequence of messages with the
\* roles system, user, assistant and function, the request holds as many
\* messages as were given, in the same order, the i-th carrying the role
\* and the content of the i-th given.
C16_RequestPreservesMessages ==
    (client # "none" /\ \A i \in 1..Len(messages) : messages[i].Role \in Roles) =>
        /\ requestErr = NilErr
        /\ Len(request) = Len(messages)
        /\ \A i \in 1..Len(messages) :
              /\ request[i].Role = messages[i].Role
              /\ request[i].Content = messages[i].Content

\* C27: a provider client's Complete returns an unsupported-role error, with
\* no request to the backend, exactly when some message has a role that is
\* none of system, user, assistant and function; isRetryableError does not
\* take that error for retryable, so the Completer makes one attempt only.
C27_UnsupportedRole ==
    client # "none" =>
        /\ requestErr # NilErr
             <=> \E i \in 1..Len(messages) : messages[i].Role \notin Roles
        /\ requestErr # NilErr
             => /\ request = << >>
                /\ \E i \in 1..Len(messages) :
                      requestErr = Sentinel("unsupported role: " \o messages[i].Role)
                /\ ~isRetryableError(requestErr)

(* ----------------------- the configuration loader --------------------- *)

\* The longest value of PORT and of ALLOWED_ORIGINS, in characters.
MaxEnvLen == 2

\* In this part a string is the sequence of its characters, or of longer
\* pieces where only the whole matters.
EmptyString == << >>

\* The characters of the values of PORT.
PortChars == {"8", "0", "-", "+", "x"}

Digits == {"8", "0"}

DigitValue(c) == IF c = "8" THEN 8 ELSE 0

\* The characters of the values of ALLOWED_ORIGINS.
OriginChars == {"a", ","}

\* os.LookupEnv: a variable is unset, or set to a value.
Unset == [set |-> FALSE, value |-> EmptyString]

SetTo(v) == [set |-> TRUE, value |-> v]

EnvOf(values) == {Unset} \cup { SetTo(v) : v \in values }

\* The environments LoadEnvVariables is run in.
Environs ==
    [ PORT : EnvOf(SeqsOf(PortChars, 0, MaxEnvLen)),
      HOST : EnvOf({EmptyString, << "0.0.0.0" >>}),
      ALLOWED_ORIGINS : EnvOf(SeqsOf(OriginChars, 0, MaxEnvLen)),
      OPENAI_API_KEY : EnvOf({<< "env-api-key" >>}),
      OLLAMA_BASE_URL : EnvOf({<< "http://ollama" >>}),
      LANGFUSE_PUBLIC_KEY : EnvOf({<< "env-public-key" >>}),
      LANGFUSE_PRIVATE_KEY : EnvOf({<< "env-private-key" >>}) ]

\* The zero Config, and the Config of the tests' local.yaml.
Configs ==
    { [Server |-> [Host |-> EmptyString, Port |-> 0, AllowedOrigins |-> << >>],
       LLM |-> [OpenAI |-> [APIKey |-> EmptyString],
                Ollama |-> [BaseURL |-> EmptyString],
                Langfuse |-> [PublicKey |-> EmptyString, PrivateKey |-> EmptyString]]],
      [Server |-> [Host |-> << "127.0.0.1" >>, Port |-> 8080,
                   AllowedOrigins |-> << << "http://localhost:3000" >> >>],
       LLM |-> [OpenAI |-> [APIKey |-> << "test-api-key" >>],
                Ollama |-> [BaseURL |-> EmptyString],
                Langfuse |-> [PublicKey |-> << "test-public-key" >>,
                              PrivateKey |-> << "test-private-key" >>]]] }

RECURSIVE DigitsValue(_)
\* The number a sequence of digits denotes.
DigitsValue(d) ==
    IF d = << >>
    THEN 0
    ELSE 10 * DigitsValue(SubSeq(d, 1, Len(d) - 1)) + DigitValue(d[Len(d)])

\* strconv.Atoi: an optional sign, then one or more digits; anything else
\* is a syntax error.  (No value of MaxEnvLen characters is out of range.)
Atoi(str) ==
    LET signed == str # << >> /\ str[1] \in {"+", "-"}
        d == IF signed THEN Tail(str) ELSE str
        ok == d # << >> /\ \A i \in 1..Len(d) : d[i] \in Digits
    IN IF ~ok
       THEN [err |-> Sentinel("strconv.Atoi: invalid syntax"), value |-> 0]
       ELSE [err |-> NilErr,
             value |-> IF signed /\ str[1] = "-" THEN 0 - DigitsValue(d) ELSE DigitsValue(d)]

RECURSIVE Split(_)
\* strings.Split(str, ","): the pieces between the commas, an empty string
\* giving one empty piece.
Split(str) ==
    IF \A i \in 1..Len(str) : str[i] # ","
    THEN << str >>
    ELSE LET k == CHOOSE i \in 1..Len(str) :
                      str[i] = "," /\ \A j \in 1..(i - 1) : str[j] # ","
         IN << SubSeq(str, 1, k - 1) >> \o Split(SubSeq(str, k + 1, Len(str)))

\* LoadEnvVariables without the lookup of OLLAMA_BASE_URL.
LoadEnvVariables_NoOllama(c, env) ==
    LET port == Atoi(env.PORT.value)
        Or(e, old) == IF e.set THEN e.value ELSE old
    IN IF env.PORT.set /\ port.err # NilErr
       THEN [err |-> Wrap("invalid port", port.err), cfg |-> c]
       ELSE [err |-> NilErr,
             cfg |->
               [Server |->
                  [Host |-> Or(env.HOST, c.Server.Host),
                   Port |-> IF env.PORT.set THEN port.value ELSE c.Server.Port,
                   AllowedOrigins |->
                      IF env.ALLOWED_ORIGINS.set
                      THEN Split(env.ALLOWED_ORIGINS.value)
                      ELSE c.Server.AllowedOrigins],
                LLM |->
                  [OpenAI |-> [APIKey |-> Or(env.OPENAI_API_KEY, c.LLM.OpenAI.APIKey)],
                   Ollama |-> [BaseURL |-> c.LLM.Ollama.BaseURL],
                   Langfuse |->
                     [PublicKey |->
                        Or(env.LANGFUSE_PUBLIC_KEY, c.LLM.Langfuse.PublicKey),
                      PrivateKey |->
                        Or(env.LANGFUSE_PRIVATE_KEY, c.LLM.Langfuse.PrivateKey)]]]]

\* LoadEnvVariables: the error for a PORT that Atoi rejects, returned before
\* any field is set; else the Config with every set variable written to its
\* field.
LoadEnvVariables(c, env) ==
    LET port == Atoi(env.PORT.value)
        Or(e, old) == IF e.set THEN e.value ELSE old
    IN IF env.PORT.set /\ port.err # NilErr
       THEN [err |-> Wrap("invalid port", port.err), cfg |-> c]
       ELSE [err |-> NilErr,
             cfg |->
               [Server |->
                  [Host |-> Or(env.HOST, c.Server.Host),
                   Port |-> IF env.PORT.set THEN port.value ELSE c.Server.Port,
                   AllowedOrigins |->
                      IF env.ALLOWED_ORIGINS.set
                      THEN Split(env.ALLOWED_ORIGINS.value)
                      ELSE c.Server.AllowedOrigins],
                LLM |->
                  [OpenAI |-> [APIKey |-> Or(env.OPENAI_API_KEY, c.LLM.OpenAI.APIKey)],
                   Ollama |-> [BaseURL |-> Or(env.OLLAMA_BASE_URL, c.LLM.Ollama.BaseURL)],
                   Langfuse |->
                     [PublicKey |->
                        Or(env.LANGFUSE_PUBLIC_KEY, c.LLM.Langfuse.PublicKey),
                      PrivateKey |->
                        Or(env.LANGFUSE_PRIVATE_KEY, c.LLM.Langfuse.PrivateKey)]]]]

\* validator.New().Struct(cfg): the fields tagged required are not zero.
Validate(c) ==
    IF c.Server.Host # EmptyString /\ c.Server.Port # 0
       /\ c.LLM.OpenAI.APIKey # EmptyString
    THEN NilErr
    ELSE Sentinel("validation failed")

\* What findConfigFiles, os.ReadFile and yaml.Unmarshal can come to.
FileOutcomes == {"no config files found", "read error", "invalid yaml", "ok"}

\* Load, the files' content being c: the error it returns, and the Config
\* it has built.
Load(c, env, files) ==
    LET r == LoadEnvVariables(c, env)
    IN CASE files = "no config files found" ->
              [err |-> Wrap("get config files", Sentinel(files)), cfg |-> c]
         [] files = "read error" ->
              [err |-> Wrap("read config file", Sentinel(files)), cfg |-> c]
         [] files = "invalid yaml" ->
              [err |-> Wrap("config file is not valid yaml", Sentinel(files)), cfg |-> c]
         [] r.err # NilErr ->
              [err |-> Wrap("load envs into config", r.err), cfg |-> r.cfg]
         [] Validate(r.cfg) # NilErr ->
              [err |-> Wrap("config is not valid", Validate(r.cfg)), cfg |-> r.cfg]
         [] OTHER -> [err |-> NilErr, cfg |-> r.cfg]

ConfigInit ==
    /\ environ \in Environs
    /\ cfg \in Configs
    /\ loaded = "none"
    /\ loadErr = NilErr
    /\ CompleterIdle
    /\ RegistryIdle
    /\ ClientIdle

\* LoadEnvVariables(&cfg) is called.
LoadEnvVariablesCall ==
    /\ loaded = "none"
    /\ loaded' = "LoadEnvVariables"
    /\ cfg' = LoadEnvVariables(cfg, environ).cfg
    /\ loadErr' = LoadEnvVariables(cfg, environ).err
    /\ UNCHANGED << environ, completerVars, registryVars, clientVars >>

\* Load(env, configDir) is called, cfg being what the files hold.
LoadCall ==
    /\ loaded = "none"
    /\ loaded' = "Load"
    /\ \E files \in FileOutcomes :
          /\ cfg' = Load(cfg, environ, files).cfg
          /\ loadErr' = Load(cfg, environ, files).err
    /\ UNCHANGED << environ, completerVars, registryVars, clientVars >>

ConfigNext ==
    \/ LoadEnvVariablesCall
    \/ LoadCall

SpecConfig == ConfigInit /\ [][ConfigNext]_vars

\* A string that is a decimal integer: an optional sign and then digits.
IsInteger(str) ==
    \E k \in 0..1 :
       /\ Len(str) > k
       /\ k = 1 => str[1] \in {"+", "-"}
       /\ \A i \in (k + 1)..Len(str) : str[i] \in Digits

\* The field after the call: the variable's value when it is set, the
\* field before the call otherwise.
Overridden(e, new, old) == new = (IF e.set THEN e.value ELSE old)

\* C20: after LoadEnvVariables returns nil, each of Server.Port, Server.Host,
\* Server.AllowedOrigins, LLM.OpenAI.APIKey, LLM.Ollama.BaseURL and the two
\* Langfuse keys equals the value of its environment variable (PORT as the
\* integer it denotes, ALLOWED_ORIGINS split on commas) when the variable is
\* set and is unchanged otherwise; and when PORT is set to something that is
\* not an integer, LoadEnvVariables and Load return an error.
C20_EnvOverrides ==
    [][ /\ (loaded = "none" /\ loaded' = "LoadEnvVariables" /\ loadErr' = NilErr) =>
            /\ cfg'.Server.Port =
                  (IF environ.PORT.set THEN Atoi(environ.PORT.value).value
                   ELSE cfg.Server.Port)
            /\ Overridden(environ.HOST, cfg'.Server.Host, cfg.Server.Host)
            /\ cfg'.Server.AllowedOrigins =
                  (IF environ.ALLOWED_ORIGINS.set
                   THEN Split(environ.ALLOWED_ORIGINS.value)
                   ELSE cfg.Server.AllowedOrigins)
            /\ Overridden(environ.OPENAI_API_KEY, cfg'.LLM.OpenAI.APIKey,
                          cfg.LLM.OpenAI.APIKey)
            /\ Overridden(environ.OLLAMA_BASE_URL, cfg'.LLM.Ollama.BaseURL,
                          cfg.LLM.Ollama.BaseURL)
            /\ Overridden(environ.LANGFUSE_PUBLIC_KEY, cfg'.LLM.Langfuse.PublicKey,
                          cfg.LLM.Langfuse.PublicKey)
            /\ Overridden(environ.LANGFUSE_PRIVATE_KEY, cfg'.LLM.Langfuse.PrivateKey,
                          cfg.LLM.Langfuse.PrivateKey)
        /\ ( /\ loaded = "none"
             /\ loaded' # "none"
             /\ environ.PORT.set
             /\ ~IsInteger(environ.PORT.value) )
           => loadErr' # NilErr ]_vars

\* LoadEnvVariables has returned nil with PORT = "80" and
\* ALLOWED_ORIGINS = "a," written to their fields, the Ollama base URL
\* overridden, and the host, whose variable is unset, as it was.
C20_Witness ==
    /\ loaded = "LoadEnvVariables"
    /\ loadErr = NilErr
    /\ environ.PORT = SetTo(<< "8", "0" >>)
    /\ cfg.Server.Port = 80
    /\ environ.ALLOWED_ORIGINS = SetTo(<< "a", "," >>)
    /\ cfg.Server.AllowedOrigins = << << "a" >>, << >> >>
    /\ environ.OLLAMA_BASE_URL.set
    /\ cfg.LLM.Ollama.BaseURL = << "http://ollama" >>
    /\ ~environ.HOST.set
    /\ cfg.Server.Host = << "127.0.0.1" >>


====
